---- MODULE Spec2Model ----
(***************************************************************************)
(* A model of the SOCKS5 server of doraemonkeys/socks5: the per-connection *)
(* handler (method negotiation, username/password sub-negotiation, request *)
(* parsing, dial, reply) and the two-goroutine relay of forward().         *)
(*                                                                         *)
(* Byte strings ([]byte and string) are sequences of numbers 0..255.       *)
(* A stream read is io.ReadFull on the bytes the client has sent so far.   *)
(***************************************************************************)
EXTENDS Integers, Sequences, FiniteSets, TLC

\* ------------------------------------------------------------ constants

SOCKS5Version == 5
ReservedField == 0

MethodNoAuth == 0
MethodGSSAPI == 1
MethodPassword == 2
MethodNoAcceptable == 255

PasswordMethodVersion == 1
PasswordAuthSuccess == 0
PasswordAuthFailure == 1

IPv4Length == 4
IPv6Length == 16
PortLength == 2

CmdConnect == 1
CmdBind == 2
CmdUDP == 3

TypeIPv4 == 1
TypeDomain == 3
TypeIPv6 == 4

ReplySuccess == 0
ReplyConnectionRefused == 5
ReplyCommandNotSupported == 7
ReplyAddressTypeNotSupported == 8

\* The error values (errors.New); NoError is Go's nil error.
NoError == "nil"
ErrVersionNotSupported == "protocol version not supported"
ErrMethodVersionNotSupported == "sub-negotiation method version not supported"
ErrCommandNotSupported == "requst command not supported"
ErrInvalidReservedField == "invalid reserved field"
ErrAddressTypeNotSupported == "address type not supported"
ErrPasswordAuthFailure == "error authenticating username/password"
\* Errors of the runtime and of the collaborators (io, net).
ErrEOF == "EOF"
ErrUnexpectedEOF == "unexpected EOF"
ErrWrite == "write error"
ErrRead == "read error"
ErrDial == "dial error"
\* A run-time panic (slice bounds out of range): it is not an error value,
\* it unwinds the goroutine and ends the process.
Panic == "panic: slice bounds out of range"

\* ------------------------------------------------------- byte arithmetic

Byte(n) == n % 256
Uint16(n) == n % 65536

\* make([]byte, n)
MakeBuf(n) == [i \in 1..n |-> 0]

\* The effect on buf of a read that stores data into buf[:Len(data)].
Overwrite(buf, data) ==
  [i \in 1..Len(buf) |-> IF i <= Len(data) THEN data[i] ELSE buf[i]]

\* buf[:n]
Slice(buf, n) == SubSeq(buf, 1, n)

\* io.ReadFull(conn, b) with len(b) = n, on the stream s of which pos bytes
\* were consumed: n bytes, or what is left and an error once the stream ended.
ReadFull(s, pos, n) ==
  IF n = 0 THEN [err |-> NoError, data |-> <<>>, pos |-> pos]
  ELSE IF Len(s) - pos >= n
       THEN [err |-> NoError, data |-> SubSeq(s, pos + 1, pos + n), pos |-> pos + n]
       ELSE [err |-> IF Len(s) = pos THEN ErrEOF ELSE ErrUnexpectedEOF,
             data |-> SubSeq(s, pos + 1, Len(s)), pos |-> Len(s)]

\* ------------------------------------------------------ net.IP.String()

RECURSIVE Dec(_)
Dec(n) == IF n < 10 THEN <<48 + n>> ELSE Dec(n \div 10) \o <<48 + (n % 10)>>

HexDigit(d) == IF d < 10 THEN 48 + d ELSE 87 + d

RECURSIVE Hex(_)
Hex(n) == IF n < 16 THEN <<HexDigit(n)>> ELSE Hex(n \div 16) \o <<HexDigit(n % 16)>>

Dotted(b) == Dec(b[1]) \o <<46>> \o Dec(b[2]) \o <<46>> \o Dec(b[3]) \o <<46>> \o Dec(b[4])

\* ip.To4() of a 16-byte address: the IPv4-mapped form ::ffff:a.b.c.d.
IsV4Mapped(b) ==
  /\ \A i \in 1..10 : b[i] = 0
  /\ b[11] = 255
  /\ b[12] = 255

\* The 16-bit group starting at the 0-based byte offset i.
Group(b, i) == b[i + 1] * 256 + b[i + 2]

\* The end (0-based, exclusive) of the run of zero groups starting at i.
RECURSIVE ZeroRunEnd(_, _)
ZeroRunEnd(b, j) ==
  IF j < IPv6Length /\ b[j + 1] = 0 /\ b[j + 2] = 0 THEN ZeroRunEnd(b, j + 2) ELSE j

\* The longest run of zero groups, scanning as the library does: <<e0, e1>>.
RECURSIVE LongestZeroRun(_, _, _, _)
LongestZeroRun(b, i, e0, e1) ==
  IF i >= IPv6Length THEN <<e0, e1>>
  ELSE LET j == ZeroRunEnd(b, i) IN
       IF j > i /\ j - i > e1 - e0
       THEN LongestZeroRun(b, j + 2, i, j)
       ELSE LongestZeroRun(b, i + 2, e0, e1)

RECURSIVE ColonHex(_, _, _, _)
ColonHex(b, i, e0, e1) ==
  IF i >= IPv6Length THEN <<>>
  ELSE IF i = e0
       THEN <<58, 58>> \o (IF e1 >= IPv6Length THEN <<>>
                           ELSE Hex(Group(b, e1)) \o ColonHex(b, e1 + 2, e0, e1))
       ELSE (IF i > 0 THEN <<58>> ELSE <<>>) \o Hex(Group(b, i)) \o ColonHex(b, i + 2, e0, e1)

\* net.IP(buf).String() for a buffer of 4 or 16 bytes.
IPString(b) ==
  IF Len(b) = IPv4Length THEN Dotted(b)
  ELSE IF IsV4Mapped(b) THEN Dotted(SubSeq(b, 13, 16))
  ELSE LET run == LongestZeroRun(b, 0, -1, -1)
           e0 == IF run[2] - run[1] <= 2 THEN -1 ELSE run[1]
           e1 == IF run[2] - run[1] <= 2 THEN -1 ELSE run[2]
       IN ColonHex(b, 0, e0, e1)

\* ---------------------------------------------------------- the parsers

\* A variant of NewClientAuthMessage that validates the version after the methods.
NewClientAuthMessage_LateCheck(s, pos) ==
  LET r1 == ReadFull(s, pos, 2) IN
  IF r1.err # NoError THEN [err |-> r1.err, pos |-> r1.pos, Methods |-> <<>>]
  ELSE LET buf == r1.data
           r2 == ReadFull(s, r1.pos, buf[2])
       IN IF r2.err # NoError
          THEN [err |-> r2.err, pos |-> r2.pos, Methods |-> <<>>]
          ELSE IF buf[1] # SOCKS5Version
          THEN [err |-> ErrVersionNotSupported, pos |-> r2.pos, Methods |-> <<>>]
          ELSE [err |-> NoError, pos |-> r2.pos, Methods |-> r2.data]

\* NewClientAuthMessage on stream s from position pos.
NewClientAuthMessage(s, pos) ==
  LET r1 == ReadFull(s, pos, 2) IN
  IF r1.err # NoError THEN [err |-> r1.err, pos |-> r1.pos, Methods |-> <<>>]
  ELSE LET buf == r1.data IN
       IF buf[1] # SOCKS5Version
       THEN [err |-> ErrVersionNotSupported, pos |-> r1.pos, Methods |-> <<>>]
       ELSE LET nmethods == buf[2]
                r2 == ReadFull(s, r1.pos, nmethods)
            IN IF r2.err # NoError
               THEN [err |-> r2.err, pos |-> r2.pos, Methods |-> <<>>]
               ELSE [err |-> NoError, pos |-> r2.pos, Methods |-> r2.data]

\* A variant of Acceptable that looks at the first offered method only.
Acceptable_FirstOnly(methods, method) == Len(methods) > 0 /\ methods[1] = method

\* for _, method := range clientMessage.Methods { if method == AuthMethod ... }
Acceptable(methods, method) == \E i \in 1..Len(methods) : methods[i] = method

\* SendServerAuthMessage: the buffer handed to conn.Write.
SendServerAuthMessage(method) == <<SOCKS5Version, method>>

\* A variant of NewClientPasswordMessage whose username is a slice of the read
\* buffer, not a copy: a password read into the same buffer shows through it.
NewClientPasswordMessage_Alias(s, pos) ==
  LET r1 == ReadFull(s, pos, 2)
      none == [Username |-> <<>>, Password |-> <<>>]
  IN
  IF r1.err # NoError THEN [err |-> r1.err, pos |-> r1.pos] @@ none
  ELSE LET version == r1.data[1]
           usernameLen == r1.data[2]
       IN
       IF version # PasswordMethodVersion
       THEN [err |-> ErrMethodVersionNotSupported, pos |-> r1.pos] @@ none
       ELSE LET n2 == Byte(usernameLen + 1)
                r2 == ReadFull(s, r1.pos, n2)
                buf2 == r2.data
            IN
            IF r2.err # NoError THEN [err |-> r2.err, pos |-> r2.pos] @@ none
            ELSE IF Len(buf2) = 0
            THEN [err |-> Panic, pos |-> r2.pos] @@ none
            ELSE LET passwordLen == buf2[Len(buf2)]
                     buf3 == IF Len(buf2) < passwordLen THEN MakeBuf(passwordLen) ELSE buf2
                     r3 == ReadFull(s, r2.pos, passwordLen)
                     buf4 == Overwrite(buf3, r3.data)
                     username == IF Len(buf2) < passwordLen
                                 THEN Slice(buf2, Len(buf2) - 1)
                                 ELSE Slice(buf4, Len(buf2) - 1)
                 IN
                 IF r3.err # NoError THEN [err |-> r3.err, pos |-> r3.pos] @@ none
                 ELSE [err |-> NoError, pos |-> r3.pos,
                       Username |-> username, Password |-> Slice(buf4, passwordLen)]

\* NewClientPasswordMessage on stream s from position pos.
NewClientPasswordMessage(s, pos) ==
  LET r1 == ReadFull(s, pos, 2)
      none == [Username |-> <<>>, Password |-> <<>>]
  IN
  IF r1.err # NoError THEN [err |-> r1.err, pos |-> r1.pos] @@ none
  ELSE LET version == r1.data[1]
           usernameLen == r1.data[2]
       IN
       IF version # PasswordMethodVersion
       THEN [err |-> ErrMethodVersionNotSupported, pos |-> r1.pos] @@ none
       ELSE LET n2 == Byte(usernameLen + 1)       \* byte arithmetic: 255+1 = 0
                r2 == ReadFull(s, r1.pos, n2)
                buf2 == r2.data
            IN
            IF r2.err # NoError THEN [err |-> r2.err, pos |-> r2.pos] @@ none
            ELSE IF Len(buf2) = 0                 \* buf[:len(buf)-1] with len(buf) = 0
            THEN [err |-> Panic, pos |-> r2.pos] @@ none
            ELSE LET username == Slice(buf2, Len(buf2) - 1)
                     passwordLen == buf2[Len(buf2)]
                     buf3 == IF Len(buf2) < passwordLen THEN MakeBuf(passwordLen) ELSE buf2
                     r3 == ReadFull(s, r2.pos, passwordLen)
                     buf4 == Overwrite(buf3, r3.data)
                 IN
                 IF r3.err # NoError THEN [err |-> r3.err, pos |-> r3.pos] @@ none
                 ELSE [err |-> NoError, pos |-> r3.pos,
                       Username |-> username, Password |-> Slice(buf4, passwordLen)]

\* A variant of WriteServerPasswordMessage that sends the protocol version.
WriteServerPasswordMessage_V5(status) == <<SOCKS5Version, status>>

\* WriteServerPasswordMessage: the buffer handed to conn.Write.
WriteServerPasswordMessage(status) == <<PasswordMethodVersion, status>>

\* A variant of HeaderError that checks the reserved byte before the command.
HeaderError_ReservedFirst(version, command, reserved, addrType) ==
  IF version # SOCKS5Version THEN ErrVersionNotSupported
  ELSE IF reserved # ReservedField THEN ErrInvalidReservedField
  ELSE IF command # CmdConnect /\ command # CmdBind /\ command # CmdUDP
       THEN ErrCommandNotSupported
  ELSE IF addrType # TypeIPv4 /\ addrType # TypeIPv6 /\ addrType # TypeDomain
       THEN ErrAddressTypeNotSupported
  ELSE NoError

\* The header checks of NewClientRequestMessage, in the order of the code.
HeaderError(version, command, reserved, addrType) ==
  IF version # SOCKS5Version THEN ErrVersionNotSupported
  ELSE IF command # CmdConnect /\ command # CmdBind /\ command # CmdUDP
       THEN ErrCommandNotSupported
  ELSE IF reserved # ReservedField THEN ErrInvalidReservedField
  ELSE IF addrType # TypeIPv4 /\ addrType # TypeIPv6 /\ addrType # TypeDomain
       THEN ErrAddressTypeNotSupported
  ELSE NoError

\* message.Port = (uint16(buf[0]) << 8) + uint16(buf[1])
PortOf(buf) == Uint16(Uint16(buf[1] * 256) + buf[2])

\* A variant of ReadPort that composes the port from what the scratch buffer
\* held before the port was read into it.
ReadPort_Stale(s, pos, buf, cmd, addrType, targetIP) ==
  LET r == ReadFull(s, pos, PortLength)
  IN IF r.err # NoError
     THEN [err |-> r.err, pos |-> r.pos, Cmd |-> 0, AddrType |-> 0, TargetIP |-> <<>>, Port |-> 0]
     ELSE [err |-> NoError, pos |-> r.pos, Cmd |-> cmd, AddrType |-> addrType,
           TargetIP |-> targetIP, Port |-> PortOf(buf)]

\* The tail of NewClientRequestMessage: the port is read into buf[:PortLength] of
\* the scratch buffer the address was read into.
ReadPort(s, pos, buf, cmd, addrType, targetIP) ==
  LET r == ReadFull(s, pos, PortLength)
      b == Overwrite(buf, r.data)
  IN IF r.err # NoError
     THEN [err |-> r.err, pos |-> r.pos, Cmd |-> 0, AddrType |-> 0, TargetIP |-> <<>>, Port |-> 0]
     ELSE [err |-> NoError, pos |-> r.pos, Cmd |-> cmd, AddrType |-> addrType,
           TargetIP |-> targetIP, Port |-> PortOf(b)]

\* NewClientRequestMessage on stream s from position pos.
NewClientRequestMessage(s, pos) ==
  LET r1 == ReadFull(s, pos, 4)
      fail(e, p) == [err |-> e, pos |-> p, Cmd |-> 0, AddrType |-> 0, TargetIP |-> <<>>, Port |-> 0]
  IN
  IF r1.err # NoError THEN fail(r1.err, r1.pos)
  ELSE LET buf == r1.data
           command == buf[2]
           addrType == buf[4]
           herr == HeaderError(buf[1], buf[2], buf[3], buf[4])
       IN
       IF herr # NoError THEN fail(herr, r1.pos)
       ELSE IF addrType = TypeDomain
       THEN LET rl == ReadFull(s, r1.pos, 1)
                bufl == Overwrite(buf, rl.data)
                domainLength == bufl[1]
                bufd == IF domainLength > IPv4Length THEN MakeBuf(domainLength) ELSE bufl
                rd == ReadFull(s, rl.pos, domainLength)
                bufn == Overwrite(bufd, rd.data)
            IN IF rl.err # NoError THEN fail(rl.err, rl.pos)
               ELSE IF rd.err # NoError THEN fail(rd.err, rd.pos)
               ELSE ReadPort(s, rd.pos, bufn, command, addrType, Slice(bufn, domainLength))
       ELSE LET bufa == IF addrType = TypeIPv6 THEN MakeBuf(IPv6Length) ELSE buf
                ra == ReadFull(s, r1.pos, Len(bufa))
                bufi == Overwrite(bufa, ra.data)
            IN IF ra.err # NoError THEN fail(ra.err, ra.pos)
               ELSE ReadPort(s, ra.pos, bufi, command, addrType, IPString(bufi))

\* --------------------------------------------------------- the replies

\* A variant of WriteRequestSuccessMessage that shifts the difference instead of
\* the high byte: byte((port - uint16(buf[0])) << 8).
WriteRequestSuccessMessage_Shift(ip, port) ==
  LET addressType == IF Len(ip) > IPv4Length THEN TypeIPv6 ELSE TypeIPv4
      b0 == Byte(port \div 256)
      b1 == Byte(Uint16(Uint16(port - b0 + 65536) * 256))
  IN << <<SOCKS5Version, ReplySuccess, ReservedField, addressType>>, ip, <<b0, b1>> >>

\* WriteRequestSuccessMessage: the three buffers handed to conn.Write, in order.
WriteRequestSuccessMessage(ip, port) ==
  LET addressType == IF Len(ip) > IPv4Length THEN TypeIPv6 ELSE TypeIPv4
      b0 == Byte(port \div 256)                        \* byte(port >> 8)
      b1 == Byte(Uint16(port - Uint16(b0 * 256) + 65536))  \* byte(port - uint16(buf[0])<<8)
  IN << <<SOCKS5Version, ReplySuccess, ReservedField, addressType>>, ip, <<b0, b1>> >>

\* WriteRequestFailureMessage: the buffer handed to conn.Write.
WriteRequestFailureMessage(replyType) ==
  <<SOCKS5Version, replyType, ReservedField, TypeIPv4, 0, 0, 0, 0, 0, 0>>

\* ------------------------------------------------- configuration, inputs

\* The payload bound of the relay: bytes each endpoint sends after the handshake.
MaxPayload == 2

\* Config.AuthMethod values the model runs the server with.
AuthMethods == {MethodNoAuth, MethodPassword}

Admin == <<97, 100, 109, 105, 110>>              \* "admin"
AdminPassword == <<49, 50, 51, 52, 53, 54>>      \* "123456"
NonASCIIUser == <<200, 0>>

\* The users map of the configured checker: the example's entry and one with a
\* non-ASCII name and an empty password.
Users == { <<Admin, AdminPassword>>, <<NonASCIIUser, <<>> >> }

\* Config.PasswordChecker: users[username] exists and equals password.
PasswordChecker(username, password) == <<username, password>> \in Users

\* n bytes, all different from their neighbours, starting from base.
Fill(n, base) == [i \in 1..n |-> base + (i % 7)]

\* The wire encodings a client produces.
GreetingFrame(ver, methods) == <<ver, Len(methods)>> \o methods
PasswordFrame(ver, u, p) == <<ver, Len(u)>> \o u \o <<Len(p)>> \o p
PortBytes(port) == <<port \div 256, port % 256>>
RequestFrame(ver, cmd, rsv, atyp, addr, port) == <<ver, cmd, rsv, atyp>> \o addr \o PortBytes(port)
DomainAddr(name) == <<Len(name)>> \o name

MethodLists ==
  { <<>>, <<MethodNoAuth>>, <<MethodPassword>>, <<MethodGSSAPI, MethodPassword, MethodNoAuth>>,
    <<MethodGSSAPI>>, <<MethodNoAcceptable>>,
    [i \in 1..255 |-> IF i = 255 THEN MethodPassword ELSE MethodGSSAPI],
    [i \in 1..255 |-> MethodGSSAPI] }

\* What the client sends for the greeting: well-formed greetings, greetings of
\* another version, cut ones, and ones followed by a further byte.
Greetings ==
  { GreetingFrame(SOCKS5Version, m) : m \in MethodLists }
  \cup { GreetingFrame(4, <<MethodNoAuth>>), GreetingFrame(4, <<MethodPassword>>) }
  \cup { <<>>, <<SOCKS5Version>>, <<SOCKS5Version, 2, MethodNoAuth>> }
  \cup { GreetingFrame(SOCKS5Version, <<MethodNoAuth>>) \o <<9>>,
         GreetingFrame(SOCKS5Version, <<MethodGSSAPI>>) \o <<9>> }

Credentials ==
  { <<Admin, AdminPassword>>, <<Admin, <<>> >>, <<NonASCIIUser, <<>> >>, << <<>>, <<>> >>,
    << <<>>, AdminPassword>>, << <<>>, Fill(255, 60)>>, <<Fill(254, 110), Fill(255, 60)>>,
    <<Fill(255, 110), AdminPassword>>, <<Fill(255, 110), <<>> >> }

Subnegotiations ==
  { PasswordFrame(PasswordMethodVersion, c[1], c[2]) : c \in Credentials }
  \cup { PasswordFrame(SOCKS5Version, Admin, AdminPassword) }
  \cup { <<>>, <<PasswordMethodVersion>>, <<PasswordMethodVersion, 5, 97>>,
         <<PasswordMethodVersion, 1, 97, 3, 49>> }
  \cup { PasswordFrame(PasswordMethodVersion, Admin, AdminPassword) \o <<9>>,
         PasswordFrame(PasswordMethodVersion, Admin, <<>>) \o <<9>> }

Loopback == <<127, 0, 0, 1>>
ExampleCom == <<101, 120, 97, 109, 112, 108, 101, 46, 99, 111, 109>>   \* "example.com"
LoopbackV6 == [i \in 1..16 |-> IF i = 16 THEN 1 ELSE 0]                 \* ::1
MappedV6 == [i \in 1..16 |-> IF i \in {11, 12} THEN 255 ELSE IF i > 12 THEN i - 12 ELSE 0]
DocV6 == <<32, 1, 13, 184, 0, 0, 0, 0, 0, 1, 0, 0, 0, 0, 0, 1>>         \* 2001:db8::1:0:0:1

\* The addresses a client asks for, as <<ATYP, DST.ADDR>>.
Addresses ==
  { <<TypeIPv4, Loopback>>, <<TypeIPv4, <<10, 0, 200, 3>> >> }
  \cup { <<TypeIPv6, a>> : a \in {LoopbackV6, MappedV6, DocV6} }
  \cup { <<TypeDomain, DomainAddr(Fill(n, 97))>> : n \in {0, 1, 2, 3, 4, 5, 255} }
  \cup { <<TypeDomain, DomainAddr(ExampleCom)>> }

Ports == {0, 80, 258, 4660, 65535}

\* Header bytes: the valid ones and one invalid value of each field.
Versions == {SOCKS5Version, 4}
Commands == {CmdConnect, CmdBind, CmdUDP, 9}
Reserveds == {ReservedField, 1}
AddrTypes == {TypeIPv4, TypeDomain, TypeIPv6, 2}

\* What the client sends for the request: every valid header with every
\* address, the ports with the loopback address; every header with an invalid
\* field; cut requests; requests followed by a further byte.
Requests ==
  { RequestFrame(SOCKS5Version, c, ReservedField, a[1], a[2], 4660) :
      c \in {CmdConnect, CmdBind, CmdUDP}, a \in Addresses }
  \cup { RequestFrame(SOCKS5Version, CmdConnect, ReservedField, TypeIPv4, Loopback, p) : p \in Ports }
  \cup { RequestFrame(v, c, r, t, Loopback, 80) :
           v \in Versions, c \in Commands, r \in Reserveds, t \in AddrTypes \ {TypeDomain, TypeIPv6} }
  \cup { RequestFrame(v, c, r, TypeDomain, DomainAddr(ExampleCom), 80) :
           v \in Versions, c \in Commands \ {CmdConnect, CmdBind, CmdUDP}, r \in Reserveds }
  \cup { <<>>, <<SOCKS5Version, CmdConnect>>,
         <<SOCKS5Version, CmdConnect, ReservedField, TypeIPv4, 127, 0>>,
         <<SOCKS5Version, CmdConnect, ReservedField, TypeDomain>>,
         <<SOCKS5Version, CmdConnect, ReservedField, TypeDomain, 3, 97>>,
         <<SOCKS5Version, CmdConnect, ReservedField, TypeIPv4, 127, 0, 0, 1, 0>> }
  \cup { RequestFrame(SOCKS5Version, CmdConnect, ReservedField, a[1], a[2], 80) \o <<71>> :
           a \in { <<TypeIPv4, Loopback>>, <<TypeDomain, DomainAddr(Fill(3, 97))>>,
                   <<TypeDomain, DomainAddr(ExampleCom)>> } }

\* The targets that accept a connection (host string, port); a dial to any
\* other target fails, and a dial to these may fail too.
Listening == { <<Dotted(Loopback), 80>>, <<ExampleCom, 4660>>, <<Fill(4, 97), 4660>> }

\* targetConn.LocalAddr() of an established connection.
LocalAddrs == { [IP |-> Loopback, Port |-> 1080], [IP |-> LoopbackV6, Port |-> 65535] }

\* The bytes the endpoints send during the relay, in order.
ClientPayload == <<201, 202, 203, 204>>
TargetPayload == <<211, 212, 213, 214>>

\* ------------------------------------------------------------- the state

VARIABLES
  authMethod,  \* s.Config.AuthMethod
  pc,          \* where the connection's goroutine (Run's go func) stands
  err,         \* the error handleConnection returned (NoError: nil)
  cin,         \* every byte the client has sent on conn so far
  rpos,        \* how many bytes of cin the server has read
  ceof,        \* the client has closed its sending side
  cconn,       \* conn as the server holds it: "open" or "closed"
  cout,        \* the bytes conn.Write has delivered to the client
  wlog,        \* the handshake's conn.Write calls: [b: the buffer, ok: no error]
  trace,       \* the steps of the handshake taken so far, in order
  calls,       \* the calls of Config.PasswordChecker: <<username, password, result>>
  message,     \* the *ClientRequestMessage request() holds
  tconn,       \* targetConn as the server holds it: "none", "open" or "closed"
  laddr,       \* targetConn.LocalAddr()
  tin,         \* every byte the target has sent so far
  tpos,        \* how many bytes of tin the server has read
  tpeer,       \* the target's side: "open", "eof" (closed) or "reset" (failed)
  tout,        \* the bytes targetConn.Write has delivered to the target
  c2t,         \* the goroutine io.Copy(targetConn, conn): "none", "read", "write", "done"
  c2tbuf,      \* the bytes that goroutine has read and not yet written
  c2terr,      \* the result of that io.Copy, which forward discards
  t2cbuf,      \* the bytes io.Copy(conn, targetConn) has read and not yet written
  ferr,        \* the error io.Copy(conn, targetConn) returned to forward
  csent        \* how many bytes the client has sent since the relay started

vars == <<authMethod, pc, err, cin, rpos, ceof, cconn, cout, wlog, trace, calls, message,
          tconn, laddr, tin, tpos, tpeer, tout, c2t, c2tbuf, c2terr, t2cbuf, ferr, csent>>

\* The variables of the target connection and of the relay.
relayVars == <<tconn, laddr, tin, tpos, tpeer, tout, c2t, c2tbuf, c2terr, t2cbuf, ferr, csent>>

NoMessage == [Cmd |-> 0, AddrType |-> 0, TargetIP |-> <<>>, Port |-> 0]
NoAddr == [IP |-> <<>>, Port |-> 0]

\* A connection just accepted by Run: nothing read, nothing written.
Init ==
  /\ authMethod \in AuthMethods
  /\ pc = "auth"
  /\ err = NoError
  /\ cin = <<>>
  /\ rpos = 0
  /\ ceof = FALSE
  /\ cconn = "open"
  /\ cout = <<>>
  /\ wlog = <<>>
  /\ trace = <<>>
  /\ calls = <<>>
  /\ message = NoMessage
  /\ tconn = "none"
  /\ laddr = NoAddr
  /\ tin = <<>>
  /\ tpos = 0
  /\ tpeer = "open"
  /\ tout = <<>>
  /\ c2t = "none"
  /\ c2tbuf = <<>>
  /\ c2terr = NoError
  /\ t2cbuf = <<>>
  /\ ferr = NoError
  /\ csent = 0

\* A read error of io.ReadFull means the client's stream has ended.
StreamEnded(e) == e \in {ErrEOF, ErrUnexpectedEOF}

\* conn.Write(b) with outcome ok: what it adds to the log and to the client.
Written(b, ok) ==
  /\ wlog' = Append(wlog, [b |-> b, ok |-> ok])
  /\ cout' = IF ok THEN cout \o b ELSE cout

\* ------------------------------------------------------- the handshake

\* A variant of AfterSelection that never runs the sub-negotiation.
AfterSelection_Skip(method) == "request"

\* Where auth() goes once the method selection is written.
AfterSelection(method) == IF method = MethodPassword THEN "subneg" ELSE "request"

\* SOCKS5Server.auth, first part: the greeting and the method selection.
\* The client sends f; the write of the selection succeeds or not (wok).
Negotiate ==
  /\ pc = "auth"
  /\ \E f \in Greetings, wok \in BOOLEAN :
       LET s == cin \o f
           m == NewClientAuthMessage(s, rpos)
       IN
       /\ cin' = s
       /\ rpos' = m.pos
       /\ ceof' = (ceof \/ StreamEnded(m.err))
       /\ IF m.err # NoError
          THEN /\ wok
               /\ pc' = "returned"
               /\ err' = m.err
               /\ trace' = Append(trace, "greeting_err")
               /\ UNCHANGED <<wlog, cout>>
          ELSE IF ~ Acceptable(m.Methods, authMethod)
          THEN /\ Written(SendServerAuthMessage(MethodNoAcceptable), wok)
               /\ pc' = "returned"
               /\ err' = ErrVersionNotSupported
               /\ trace' = trace \o <<"greeting", "nomethod">>
          ELSE /\ Written(SendServerAuthMessage(authMethod), wok)
               /\ pc' = IF wok THEN AfterSelection(authMethod) ELSE "returned"
               /\ err' = IF wok THEN NoError ELSE ErrWrite
               /\ trace' = trace \o <<"greeting", IF wok THEN "method" ELSE "method_werr">>
  /\ UNCHANGED <<authMethod, cconn, calls, message>>
  /\ UNCHANGED relayVars

\* SOCKS5Server.auth, second part: the username/password sub-negotiation.
SubNegotiate ==
  /\ pc = "subneg"
  /\ \E f \in Subnegotiations, wok \in BOOLEAN :
       LET s == cin \o f
           cpm == NewClientPasswordMessage(s, rpos)
           ok == PasswordChecker(cpm.Username, cpm.Password)
       IN
       /\ cin' = s
       /\ rpos' = cpm.pos
       /\ ceof' = (ceof \/ StreamEnded(cpm.err))
       /\ IF cpm.err = Panic
          THEN /\ wok
               /\ pc' = "panicked"
               /\ err' = Panic
               /\ trace' = Append(trace, "subneg_panic")
               /\ UNCHANGED <<wlog, cout, calls>>
          ELSE IF cpm.err # NoError
          THEN /\ wok
               /\ pc' = "returned"
               /\ err' = cpm.err
               /\ trace' = Append(trace, "subneg_err")
               /\ UNCHANGED <<wlog, cout, calls>>
          ELSE /\ calls' = Append(calls, <<cpm.Username, cpm.Password, ok>>)
               /\ IF ~ ok
                  THEN /\ Written(WriteServerPasswordMessage(PasswordAuthFailure), wok)
                       /\ pc' = "returned"
                       /\ err' = ErrPasswordAuthFailure
                       /\ trace' = trace \o <<"subneg", "check_false", "status_fail">>
                  ELSE /\ Written(WriteServerPasswordMessage(PasswordAuthSuccess), wok)
                       /\ pc' = IF wok THEN "request" ELSE "returned"
                       /\ err' = IF wok THEN NoError ELSE ErrWrite
                       /\ trace' = trace \o <<"subneg", "check_true",
                                             IF wok THEN "status_ok" ELSE "status_werr">>
  /\ UNCHANGED <<authMethod, cconn, message>>
  /\ UNCHANGED relayVars

\* A variant of Dispatch that looks at the command before the address type.
Dispatch_CommandFirst(m) ==
  IF m.Cmd = CmdUDP THEN "udp"
  ELSE IF m.Cmd # CmdConnect THEN "other"
  ELSE IF m.AddrType = TypeIPv6 THEN "ipv6"
  ELSE "tcp"

\* What request() does with a parsed message: "ipv6" (failure reply, error),
\* "tcp" (handleTCP), "udp" (handleUDP) or "other" (failure reply, error).
Dispatch(m) ==
  IF m.AddrType = TypeIPv6 THEN "ipv6"
  ELSE IF m.Cmd = CmdConnect THEN "tcp"
  ELSE IF m.Cmd = CmdUDP THEN "udp"
  ELSE "other"

\* SOCKS5Server.request (with handleUDP): the request is parsed and dispatched.
Request ==
  /\ pc = "request"
  /\ \E f \in Requests, wok \in BOOLEAN :
       LET s == cin \o f
           m == NewClientRequestMessage(s, rpos)
           d == Dispatch(m)
       IN
       /\ cin' = s
       /\ rpos' = m.pos
       /\ ceof' = (ceof \/ StreamEnded(m.err))
       /\ IF m.err # NoError
          THEN /\ wok
               /\ pc' = "returned"
               /\ err' = m.err
               /\ message' = NoMessage
               /\ trace' = trace \o <<"request", "request_err">>
               /\ UNCHANGED <<wlog, cout>>
          ELSE /\ message' = [Cmd |-> m.Cmd, AddrType |-> m.AddrType,
                              TargetIP |-> m.TargetIP, Port |-> m.Port]
               /\ CASE d = "ipv6" ->
                         /\ Written(WriteRequestFailureMessage(ReplyAddressTypeNotSupported), wok)
                         /\ pc' = "returned"
                         /\ err' = ErrAddressTypeNotSupported
                         /\ trace' = trace \o <<"request", "failure">>
                    [] d = "tcp" ->
                         /\ wok
                         /\ pc' = "dial"
                         /\ err' = NoError
                         /\ trace' = trace \o <<"request">>
                         /\ UNCHANGED <<wlog, cout>>
                    [] d = "udp" ->
                         /\ wok
                         /\ pc' = "returned"
                         /\ err' = NoError
                         /\ trace' = trace \o <<"request", "udp">>
                         /\ UNCHANGED <<wlog, cout>>
                    [] OTHER ->
                         /\ Written(WriteRequestFailureMessage(ReplyCommandNotSupported), wok)
                         /\ pc' = "returned"
                         /\ err' = ErrCommandNotSupported
                         /\ trace' = trace \o <<"request", "failure">>
  /\ UNCHANGED <<authMethod, cconn, calls>>
  /\ UNCHANGED relayVars

\* ------------------------------------------------------ dial and reply

\* handleTCP, the dial fails: the failure reply is written, the error returned.
DialFail ==
  /\ pc = "dial"
  /\ \E wok \in BOOLEAN :
       Written(WriteRequestFailureMessage(ReplyConnectionRefused), wok)
  /\ pc' = "returned"
  /\ err' = ErrDial
  /\ trace' = trace \o <<"dial", "failure">>
  /\ UNCHANGED <<authMethod, cin, rpos, ceof, cconn, calls, message>>
  /\ UNCHANGED relayVars

\* handleTCP, the dial succeeds: the target listens at the requested address.
DialOK ==
  /\ pc = "dial"
  /\ <<message.TargetIP, message.Port>> \in Listening
  /\ tconn' = "open"
  /\ laddr' \in LocalAddrs
  /\ pc' = "reply"
  /\ trace' = Append(trace, "dial")
  /\ UNCHANGED <<authMethod, err, cin, rpos, ceof, cconn, cout, wlog, calls, message>>
  /\ UNCHANGED <<tin, tpos, tpeer, tout, c2t, c2tbuf, c2terr, t2cbuf, ferr, csent>>

\* The log after the writes bs, of which the k-th fails (k = 0: none fails):
\* the writes after a failed one are not made.
RECURSIVE WriteAll(_, _, _)
WriteAll(log, bs, k) ==
  IF bs = <<>> THEN log
  ELSE IF k = 1 THEN Append(log, [b |-> Head(bs), ok |-> FALSE])
  ELSE WriteAll(Append(log, [b |-> Head(bs), ok |-> TRUE]), Tail(bs), k - 1)

\* The bytes the successful writes of a log delivered.
RECURSIVE Delivered(_)
Delivered(log) ==
  IF log = <<>> THEN <<>>
  ELSE (IF Head(log).ok THEN Head(log).b ELSE <<>>) \o Delivered(Tail(log))

\* handleTCP after the dial: the success reply; on a write error handleTCP
\* returns the error, else it calls forward.
Reply ==
  /\ pc = "reply"
  /\ \E k \in 0..3 :
       LET bs == WriteRequestSuccessMessage(laddr.IP, laddr.Port)
           log == WriteAll(<<>>, bs, k)
       IN
       /\ wlog' = wlog \o log
       /\ cout' = cout \o Delivered(log)
       /\ pc' = IF k = 0 THEN "forward" ELSE "returned"
       /\ err' = IF k = 0 THEN NoError ELSE ErrWrite
       /\ trace' = Append(trace, IF k = 0 THEN "reply" ELSE "reply_werr")
  /\ UNCHANGED <<authMethod, cin, rpos, ceof, cconn, calls, message>>
  /\ UNCHANGED relayVars

\* ------------------------------------------------------------ the relay

\* forward: the deferred close is registered, the goroutine io.Copy(targetConn, conn)
\* is started and the connection's goroutine enters io.Copy(conn, targetConn).
ForwardStart ==
  /\ pc = "forward"
  /\ c2t' = "read"
  /\ pc' = "copy_read"
  /\ trace' = Append(trace, "relay")
  /\ UNCHANGED <<authMethod, err, cin, rpos, ceof, cconn, cout, wlog, calls, message>>
  /\ UNCHANGED <<tconn, laddr, tin, tpos, tpeer, tout, c2tbuf, c2terr, t2cbuf, ferr, csent>>

\* io.Copy(conn, targetConn), the read: the bytes the target has sent, or the end
\* of the copy when the target closed (EOF: io.Copy returns nil) or failed.
T2CRead ==
  /\ pc = "copy_read"
  /\ IF tpos < Len(tin)
     THEN /\ t2cbuf' = SubSeq(tin, tpos + 1, Len(tin))
          /\ tpos' = Len(tin)
          /\ pc' = "copy_write"
          /\ ferr' = ferr
     ELSE /\ tpeer # "open"
          /\ ferr' = IF tpeer = "eof" THEN NoError ELSE ErrRead
          /\ pc' = "copy_done"
          /\ UNCHANGED <<t2cbuf, tpos>>
  /\ UNCHANGED <<authMethod, err, cin, rpos, ceof, cconn, cout, wlog, trace, calls, message>>
  /\ UNCHANGED <<tconn, laddr, tin, tpeer, tout, c2t, c2tbuf, c2terr, csent>>

\* io.Copy(conn, targetConn), the write to the client, which succeeds or fails.
T2CWrite ==
  /\ pc = "copy_write"
  /\ \E wok \in BOOLEAN :
       /\ cout' = IF wok THEN cout \o t2cbuf ELSE cout
       /\ pc' = IF wok THEN "copy_read" ELSE "copy_done"
       /\ ferr' = IF wok THEN ferr ELSE ErrWrite
  /\ t2cbuf' = <<>>
  /\ UNCHANGED <<authMethod, err, cin, rpos, ceof, cconn, wlog, trace, calls, message>>
  /\ UNCHANGED <<tconn, laddr, tin, tpos, tpeer, tout, c2t, c2tbuf, c2terr, csent>>

\* A variant of ForwardReturn without the deferred targetConn.Close().
ForwardReturn_NoClose ==
  /\ pc = "copy_done"
  /\ err' = ferr
  /\ pc' = "returned"
  /\ trace' = Append(trace, "relay_ret")
  /\ UNCHANGED <<authMethod, cin, rpos, ceof, cconn, cout, wlog, calls, message>>
  /\ UNCHANGED relayVars

\* A variant of ForwardReturn that reports the error of either copy.
ForwardReturn_AnyErr ==
  /\ pc = "copy_done"
  /\ tconn' = "closed"
  /\ err' = IF ferr # NoError THEN ferr ELSE c2terr
  /\ pc' = "returned"
  /\ trace' = Append(trace, "relay_ret")
  /\ UNCHANGED <<authMethod, cin, rpos, ceof, cconn, cout, wlog, calls, message>>
  /\ UNCHANGED <<laddr, tin, tpos, tpeer, tout, c2t, c2tbuf, c2terr, t2cbuf, ferr, csent>>

\* forward returns: the deferred targetConn.Close() runs, and the error of
\* io.Copy(conn, targetConn) goes up through handleTCP, request and handleConnection.
ForwardReturn ==
  /\ pc = "copy_done"
  /\ tconn' = "closed"
  /\ err' = ferr
  /\ pc' = "returned"
  /\ trace' = Append(trace, "relay_ret")
  /\ UNCHANGED <<authMethod, cin, rpos, ceof, cconn, cout, wlog, calls, message>>
  /\ UNCHANGED <<laddr, tin, tpos, tpeer, tout, c2t, c2tbuf, c2terr, t2cbuf, ferr, csent>>

\* A variant of C2TRead whose read is not ended by the close of conn.
C2TRead_Blocked ==
  /\ c2t = "read"
  /\ IF rpos < Len(cin)
     THEN /\ c2tbuf' = SubSeq(cin, rpos + 1, Len(cin))
          /\ rpos' = Len(cin)
          /\ c2t' = "write"
          /\ c2terr' = c2terr
     ELSE /\ ceof
          /\ c2t' = "done"
          /\ c2terr' = NoError
          /\ UNCHANGED <<c2tbuf, rpos>>
  /\ UNCHANGED <<authMethod, pc, err, cin, ceof, cconn, cout, wlog, trace, calls, message>>
  /\ UNCHANGED <<tconn, laddr, tin, tpos, tpeer, tout, t2cbuf, ferr, csent>>

\* The goroutine io.Copy(targetConn, conn), the read from the client: an error once
\* conn is closed, else the bytes the client has sent, else the end of its stream.
C2TRead ==
  /\ c2t = "read"
  /\ IF cconn = "closed"
     THEN /\ c2t' = "done"
          /\ c2terr' = ErrRead
          /\ UNCHANGED <<c2tbuf, rpos>>
     ELSE IF rpos < Len(cin)
     THEN /\ c2tbuf' = SubSeq(cin, rpos + 1, Len(cin))
          /\ rpos' = Len(cin)
          /\ c2t' = "write"
          /\ c2terr' = c2terr
     ELSE /\ ceof
          /\ c2t' = "done"
          /\ c2terr' = NoError
          /\ UNCHANGED <<c2tbuf, rpos>>
  /\ UNCHANGED <<authMethod, pc, err, cin, ceof, cconn, cout, wlog, trace, calls, message>>
  /\ UNCHANGED <<tconn, laddr, tin, tpos, tpeer, tout, t2cbuf, ferr, csent>>

\* A variant of C2TWrite whose destination is conn, as in io.Copy(conn, conn).
C2TWrite_Echo ==
  /\ c2t = "write"
  /\ \E wok \in BOOLEAN :
       /\ cout' = IF wok THEN cout \o c2tbuf ELSE cout
       /\ c2t' = IF wok THEN "read" ELSE "done"
       /\ c2terr' = IF wok THEN c2terr ELSE ErrWrite
  /\ c2tbuf' = <<>>
  /\ UNCHANGED <<authMethod, pc, err, cin, rpos, ceof, cconn, wlog, trace, calls, message>>
  /\ UNCHANGED <<tconn, laddr, tin, tpos, tpeer, tout, t2cbuf, ferr, csent>>

\* The goroutine io.Copy(targetConn, conn), the write to the target: it fails once
\* targetConn is closed or the target has failed, and may fail once the target closed.
C2TWrite ==
  /\ c2t = "write"
  /\ \E wok \in BOOLEAN :
       /\ wok => tconn = "open" /\ tpeer # "reset"
       /\ ~ wok => tconn = "closed" \/ tpeer # "open"
       /\ tout' = IF wok THEN tout \o c2tbuf ELSE tout
       /\ c2t' = IF wok THEN "read" ELSE "done"
       /\ c2terr' = IF wok THEN c2terr ELSE ErrWrite
  /\ c2tbuf' = <<>>
  /\ UNCHANGED <<authMethod, pc, err, cin, rpos, ceof, cconn, cout, wlog, trace, calls, message>>
  /\ UNCHANGED <<tconn, laddr, tin, tpos, tpeer, t2cbuf, ferr, csent>>

\* Run's goroutine: handleConnection has returned, the deferred conn.Close() runs.
RunClose ==
  /\ pc = "returned"
  /\ cconn' = "closed"
  /\ pc' = "closed"
  /\ UNCHANGED <<authMethod, err, cin, rpos, ceof, cout, wlog, trace, calls, message>>
  /\ UNCHANGED relayVars

\* ------------------------------------------------------ the two endpoints

Relaying == pc \in {"copy_read", "copy_write", "copy_done"}

\* The client sends its next payload byte.
ClientSend ==
  /\ Relaying
  /\ ~ ceof
  /\ csent < MaxPayload
  /\ cin' = Append(cin, ClientPayload[csent + 1])
  /\ csent' = csent + 1
  /\ UNCHANGED <<authMethod, pc, err, rpos, ceof, cconn, cout, wlog, trace, calls, message>>
  /\ UNCHANGED <<tconn, laddr, tin, tpos, tpeer, tout, c2t, c2tbuf, c2terr, t2cbuf, ferr>>

\* The client closes its side.
ClientClose ==
  /\ Relaying
  /\ ~ ceof
  /\ ceof' = TRUE
  /\ UNCHANGED <<authMethod, pc, err, cin, rpos, cconn, cout, wlog, trace, calls, message>>
  /\ UNCHANGED relayVars

\* The target sends its next payload byte.
TargetSend ==
  /\ Relaying
  /\ tpeer = "open"
  /\ Len(tin) < MaxPayload
  /\ tin' = Append(tin, TargetPayload[Len(tin) + 1])
  /\ UNCHANGED <<authMethod, pc, err, cin, rpos, ceof, cconn, cout, wlog, trace, calls, message>>
  /\ UNCHANGED <<tconn, laddr, tpos, tpeer, tout, c2t, c2tbuf, c2terr, t2cbuf, ferr, csent>>

\* The target closes its side (how = "eof") or its connection fails ("reset").
TargetClose ==
  /\ Relaying
  /\ tpeer = "open"
  /\ \E how \in {"eof", "reset"} : tpeer' = how
  /\ UNCHANGED <<authMethod, pc, err, cin, rpos, ceof, cconn, cout, wlog, trace, calls, message>>
  /\ UNCHANGED <<tconn, laddr, tin, tpos, tout, c2t, c2tbuf, c2terr, t2cbuf, ferr, csent>>

\* ------------------------------------------------------ specifications

\* The steps of the connection's goroutine during and after the relay.
MainStep == ForwardStart \/ T2CRead \/ T2CWrite \/ ForwardReturn \/ RunClose

\* The steps of the goroutine forward starts.
C2TStep == C2TRead \/ C2TWrite

Next ==
  \/ Negotiate
  \/ SubNegotiate
  \/ Request
  \/ DialFail
  \/ DialOK
  \/ Reply
  \/ ForwardStart
  \/ T2CRead
  \/ T2CWrite
  \/ ForwardReturn
  \/ C2TRead
  \/ C2TWrite
  \/ RunClose
  \/ ClientSend
  \/ ClientClose
  \/ TargetSend
  \/ TargetClose

Spec == Init /\ [][Next]_vars

\* The scheduler runs each goroutine that can take a step; the endpoints owe nothing.
FairSpec == Spec /\ WF_vars(MainStep) /\ WF_vars(C2TStep)

\* The reply encoder alone: a connection whose handshake (no authentication,
\* CONNECT 127.0.0.1:80) and dial succeeded, with any local address of the
\* target connection, and the one step that writes the success reply.
InitReply ==
  /\ authMethod = MethodNoAuth
  /\ pc = "reply"
  /\ err = NoError
  /\ cin = GreetingFrame(SOCKS5Version, <<MethodNoAuth>>)
             \o RequestFrame(SOCKS5Version, CmdConnect, ReservedField, TypeIPv4, Loopback, 80)
  /\ rpos = 13
  /\ ceof = FALSE
  /\ cconn = "open"
  /\ cout = <<5, 0>>
  /\ wlog = <<[b |-> <<5, 0>>, ok |-> TRUE]>>
  /\ trace = <<"greeting", "method", "request", "dial">>
  /\ calls = <<>>
  /\ message = [Cmd |-> CmdConnect, AddrType |-> TypeIPv4, TargetIP |-> Dotted(Loopback), Port |-> 80]
  /\ tconn = "open"
  /\ laddr \in [IP : {Loopback, LoopbackV6}, Port : 0..65535]
  /\ tin = <<>>
  /\ tpos = 0
  /\ tpeer = "open"
  /\ tout = <<>>
  /\ c2t = "none"
  /\ c2tbuf = <<>>
  /\ c2terr = NoError
  /\ t2cbuf = <<>>
  /\ ferr = NoError
  /\ csent = 0

SpecReply == InitReply /\ [][Reply]_vars

\* ----------------------------------------------- reading the history

\* The step e of the handshake was taken.
Has(e) == \E i \in DOMAIN trace : trace[i] = e

\* The place of step e in the trace (0: not taken).
Idx(e) == IF Has(e) THEN CHOOSE i \in DOMAIN trace : trace[i] = e ELSE 0

\* Step b was taken only after step a.
Before(a, b) == Has(b) => (Has(a) /\ Idx(a) < Idx(b))

\* handleConnection has returned.
Returned == pc \in {"returned", "closed"}

\* The wire layout of what the client sent, read off cin alone.
NMethods == cin[2]
GreetingEnd == 2 + NMethods
ULen == cin[GreetingEnd + 2]
PLen == cin[GreetingEnd + 3 + ULen]
SubnegEnd == GreetingEnd + 3 + ULen + PLen
RequestBase == IF authMethod = MethodPassword THEN SubnegEnd ELSE GreetingEnd
WireAddrLen ==
  LET atyp == cin[RequestBase + 4] IN
  IF atyp = TypeIPv4 THEN 4 ELSE IF atyp = TypeIPv6 THEN 16 ELSE 1 + cin[RequestBase + 5]
RequestEnd == RequestBase + 4 + WireAddrLen + 2

\* ----------------------------------------------------------------- C1
\* C1: the stages of a connection run in the order negotiation, password
\* sub-negotiation (only under the password method), request, dial, reply,
\* relay, each only after the one before succeeded: no request is read, no dial
\* made and no relay started before the method selection was written and, under
\* the password method, the check returned true and the success status was
\* written; the relay starts only after the success reply was written.
C1_StageOrder ==
  /\ Before("greeting", "method")
  /\ \A e \in {"subneg", "subneg_err", "subneg_panic"} :
       /\ Before("method", e)
       /\ Has(e) => authMethod = MethodPassword
  /\ Before("subneg", "check_true")
  /\ Before("check_true", "status_ok")
  /\ Before("method", "request")
  /\ authMethod = MethodPassword => Before("status_ok", "request")
  /\ Before("request", "dial")
  /\ Before("dial", "reply")
  /\ Before("reply", "relay")
  /\ Has("request") => ~ Has("nomethod") /\ ~ Has("check_false") /\ ~ Has("method_werr")
                       /\ ~ Has("status_werr")
  /\ Has("dial") => ~ Has("request_err")
  /\ Has("relay") => ~ Has("failure") /\ ~ Has("reply_werr")
  /\ authMethod # MethodPassword /\ Has("method") /\ rpos > GreetingEnd => Has("request")
  /\ authMethod = MethodPassword /\ Has("status_ok") /\ rpos > SubnegEnd => Has("request")
  /\ tconn # "none" => Has("dial")
  /\ c2t # "none" => Has("relay")
  /\ Has("relay") => Len(wlog) >= 4 /\ \A i \in DOMAIN wlog : wlog[i].ok

\* The relay runs on a connection that went through the password sub-negotiation.
C1_Witness ==
  /\ authMethod = MethodPassword
  /\ pc = "copy_write"
  /\ trace = <<"greeting", "method", "subneg", "check_true", "status_ok", "request",
               "dial", "reply", "relay">>

\* ----------------------------------------------------------------- C2
\* C2: for a greeting of version 5 with NMETHODS methods, the server writes
\* exactly (5, AuthMethod) and negotiation succeeds when AuthMethod is among the
\* methods, and writes exactly (5, 0xFF) and fails otherwise; either way exactly
\* 2+NMETHODS bytes of the client's stream were consumed. (The selection's write
\* is the stream's: the negotiation goes on when the stream took it.)
C2_Negotiation ==
  Has("greeting") =>
    LET offered == {cin[i] : i \in 3..GreetingEnd} IN
    /\ cin[1] = 5
    /\ Len(wlog) >= 1
    /\ IF authMethod \in offered
       THEN /\ wlog[1].b = <<5, authMethod>>
            /\ wlog[1].ok <=> Has("method")
       ELSE /\ wlog[1].b = <<5, 255>>
            /\ Len(wlog) = 1
            /\ Returned
            /\ err # NoError
            /\ ~ Has("method")
    /\ Len(trace) = 2 =>
         /\ rpos = 2 + NMethods
         /\ Len(wlog) = 1
         /\ cout = (IF wlog[1].ok THEN wlog[1].b ELSE <<>>)
         /\ Has("method") => ~ Returned /\ err = NoError

\* A greeting with 255 methods, the last of them the configured one, was accepted.
C2_Witness ==
  /\ Has("method")
  /\ Len(trace) = 2
  /\ NMethods = 255
  /\ rpos = 257
  /\ pc = "subneg"

\* ----------------------------------------------------------------- C3
\* C3: under the password method, after a well-formed sub-negotiation request,
\* the server writes exactly (1, 0) and goes on to the request when the check
\* returned true; when it returned false it writes exactly (1, 1), the connection
\* ends with the auth-failure error and no request byte is ever read. The
\* sub-negotiation succeeds if and only if the check returned true.
C3_SubNegotiation ==
  Has("subneg") =>
    /\ authMethod = MethodPassword
    /\ Len(calls) = 1
    /\ Len(wlog) >= 2
    /\ calls[1][3] = PasswordChecker(calls[1][1], calls[1][2])
    /\ IF calls[1][3]
       THEN /\ wlog[2].b = <<1, 0>>
            /\ wlog[2].ok <=> Has("status_ok")
            /\ Len(trace) = 5 /\ wlog[2].ok => pc = "request" /\ err = NoError
       ELSE /\ wlog[2].b = <<1, 1>>
            /\ Len(wlog) = 2
            /\ Returned
            /\ err = ErrPasswordAuthFailure
            /\ ~ Has("request")
            /\ rpos = SubnegEnd
    /\ Has("request") => calls[1][3]
    /\ Len(trace) = 5 => Len(wlog) = 2 /\ rpos = SubnegEnd

\* The check returned false for a well-formed request and the connection ended.
C3_Witness ==
  /\ Has("check_false")
  /\ pc = "closed"
  /\ err = ErrPasswordAuthFailure
  /\ cout = <<5, 2, 1, 1>>

\* ----------------------------------------------------------------- C4
\* The client sent a whole sub-negotiation request of version 1 after the greeting.
WireSubnegComplete ==
  /\ Len(cin) >= GreetingEnd + 2
  /\ cin[GreetingEnd + 1] = PasswordMethodVersion
  /\ Len(cin) >= GreetingEnd + 3 + ULen
  /\ Len(cin) >= SubnegEnd

\* The sub-negotiation stage has run.
SubnegRan == Has("subneg") \/ Has("subneg_err") \/ Has("subneg_panic")

\* C4: NewClientPasswordMessage, for every ULEN and PLEN in 0..255, consumes
\* exactly 1+1+ULEN+1+PLEN bytes and returns the ULEN username bytes and the
\* PLEN password bytes as sent, the lengths 0 and 255 included.
C4_PasswordParse ==
  SubnegRan /\ WireSubnegComplete =>
    /\ Has("subneg")
    /\ calls[1][1] = SubSeq(cin, GreetingEnd + 3, GreetingEnd + 2 + ULen)
    /\ calls[1][2] = SubSeq(cin, GreetingEnd + 4 + ULen, SubnegEnd)
    /\ Len(trace) = 5 => rpos = SubnegEnd

\* ----------------------------------------------------------------- C5
\* The client sent a whole request with a valid header after the handshake.
WireRequestComplete ==
  /\ Len(cin) >= RequestBase + 4
  /\ cin[RequestBase + 1] = 5
  /\ cin[RequestBase + 2] \in {1, 2, 3}
  /\ cin[RequestBase + 3] = 0
  /\ cin[RequestBase + 4] \in {1, 3, 4}
  /\ Len(cin) >= RequestBase + 5
  /\ Len(cin) >= RequestEnd

\* The address of the request on the wire, rendered as the message holds it.
WireTarget ==
  IF cin[RequestBase + 4] = TypeDomain
  THEN SubSeq(cin, RequestBase + 6, RequestBase + 5 + cin[RequestBase + 5])
  ELSE IPString(SubSeq(cin, RequestBase + 5, RequestBase + 4 + WireAddrLen))

\* C5: NewClientRequestMessage, for every valid header and address type, consumes
\* exactly 4 + (4 | 16 | 1+N) + 2 bytes, for every domain length N, those of at
\* most 4 that reuse the header buffer included; command, address and port are
\* the encoded ones (port = byte0*256 + byte1), with no byte of an earlier field
\* left in the address or the port.
C5_RequestParse ==
  Has("request") /\ WireRequestComplete =>
    /\ ~ Has("request_err")
    /\ message.Cmd = cin[RequestBase + 2]
    /\ message.AddrType = cin[RequestBase + 4]
    /\ message.TargetIP = WireTarget
    /\ message.Port = cin[RequestEnd - 1] * 256 + cin[RequestEnd]
    /\ c2t = "none" => rpos = RequestEnd

\* A domain of 4 bytes, read into the reused header buffer, was decoded.
C5_Witness ==
  /\ Has("request")
  /\ WireRequestComplete
  /\ message.AddrType = TypeDomain
  /\ message.TargetIP = <<98, 99, 100, 101>>
  /\ message.Port = 4660
  /\ pc = "dial"

\* ----------------------------------------------------------------- C6
\* C6: a well-formed request with command BIND or UDP-associate always gets a
\* failure reply written and ends the handler in failure; it never causes a dial
\* or a relay.
C6_BindUdpRejected ==
  Has("request") /\ ~ Has("request_err") /\ message.Cmd \in {CmdBind, CmdUDP} =>
    /\ Has("failure")
    /\ Returned
    /\ err # NoError
    /\ ~ Has("dial")
    /\ ~ Has("relay")

\* ----------------------------------------------------------------- C7
\* The failure frames among the handshake's writes.
FailureFrames == {i \in DOMAIN wlog : Len(wlog[i].b) = 10 /\ wlog[i].b[2] # ReplySuccess}

\* C7: every request-stage failure by an unsupported command byte, an unsupported
\* address-type byte or a failed dial has exactly one 10-byte failure frame
\* (5, status, 0, 1, 0,0,0,0, 0,0) written to the client before the handler returns.
C7_FailureFrame ==
  Returned /\ Has("request")
  /\ err \in {ErrCommandNotSupported, ErrAddressTypeNotSupported, ErrDial} =>
    /\ FailureFrames = {Len(wlog)}
    /\ \E status \in 1..8 : wlog[Len(wlog)].b = <<5, status, 0, 1, 0, 0, 0, 0, 0, 0>>

\* ----------------------------------------------------------------- C8
\* C8: WriteRequestSuccessMessage, for a bound address of 4 or 16 bytes and every
\* port in 0..65535, writes exactly 5, 0, 0, ATYP (1 for 4 bytes, 4 for 16), the
\* address bytes, port div 256 and port mod 256; the two port bytes composed as
\* the request parser composes them give the port back.
C8_SuccessReply ==
  Has("reply") =>
    LET n == Len(wlog)
        ip == laddr.IP
        port == laddr.Port
    IN
    /\ n >= 3
    /\ \A i \in (n - 2)..n : wlog[i].ok
    /\ wlog[n - 2].b \o wlog[n - 1].b \o wlog[n].b
         = <<5, 0, 0, IF Len(ip) = 4 THEN 1 ELSE 4>> \o ip \o <<port \div 256, port % 256>>
    /\ PortOf(wlog[n].b) = port

\* The reply for a 16-byte bound address and the largest port was written.
C8_Witness ==
  /\ Has("reply")
  /\ Len(laddr.IP) = 16
  /\ laddr.Port = 65535
  /\ wlog[Len(wlog)].b = <<255, 255>>

\* ----------------------------------------------------------------- C9
\* C9: during the relay, whenever either copy direction ends, the target stream
\* is eventually closed, the other direction ends and the relay returns,
\* whichever endpoint closes first and also when the other endpoint stays open
\* and silent.
C9_EitherEndStopsRelay ==
  (c2t = "done" \/ pc = "copy_done") ~> (tconn = "closed" /\ c2t = "done" /\ Returned)

\* ---------------------------------------------------------------- C10
\* C10: whenever the relay has returned (after the target's end of stream, a
\* target read error or a client write error) the target stream is closed; the
\* relay never closes the client stream, which Run's goroutine closes after the
\* handler has returned.
C10_TargetClosedOnReturn ==
  /\ Has("relay_ret") => tconn = "closed" /\ ferr \in {NoError, ErrRead, ErrWrite}
  /\ pc = "forward" \/ Relaying => cconn = "open"
  /\ cconn = "closed" => pc = "closed"

\* The relay returned on a client write error: target closed, client stream open.
C10_Witness ==
  /\ Has("relay_ret")
  /\ ferr = ErrWrite
  /\ pc = "returned"
  /\ tconn = "closed"
  /\ cconn = "open"

\* ---------------------------------------------------------------- C11

\* C11: when the target has closed its side during the relay, forward eventually
\* returns; a copy to the client that ends on the target's end of stream yields no
\* error, one that ends on a failed read or a failed write yields that error;
\* forward returns the result of that copy, and no step of the copy towards the
\* target, whatever its own result, changes it.
C11_RelayResult ==
  /\ [](Has("relay_ret") => err = ferr)
  /\ [][pc = "copy_read" /\ pc' = "copy_done"
          => ferr' = IF tpeer = "eof" THEN NoError ELSE ErrRead]_vars
  /\ [][pc = "copy_write" /\ pc' = "copy_done" => ferr' = ErrWrite]_vars
  /\ [][c2t' # c2t \/ c2terr' # c2terr => ferr' = ferr /\ err' = err]_vars
  /\ (Relaying /\ tpeer = "eof") ~> Has("relay_ret")

\* forward has returned nil after the target's end of stream, while the copy
\* towards the target had failed.
C11_Witness ==
  /\ Has("relay_ret")
  /\ tpeer = "eof"
  /\ err = NoError
  /\ c2t = "done"
  /\ c2terr = ErrWrite

\* ---------------------------------------------------------------- C12

\* a is a prefix of b.
IsPrefix(a, b) == Len(a) <= Len(b) /\ a = SubSeq(b, 1, Len(a))

\* What the goroutine io.Copy(targetConn, conn) has read from the client.
ReadFromClient == SubSeq(cin, RequestEnd + 1, rpos)

\* What io.Copy(conn, targetConn) has read from the target.
ReadFromTarget == SubSeq(tin, 1, tpos)

\* What the client has been sent after the handshake's writes.
SentToClient == SubSeq(cout, Len(Delivered(wlog)) + 1, Len(cout))

\* C12: from the start of the relay on, in every interleaving of the two copies,
\* the bytes written to the target are a prefix of the bytes read from the client
\* and the bytes written to the client after the success reply are a prefix of the
\* bytes read from the target; while a copy runs, what it has read is what it has
\* written followed by what it still holds.
C12_RelayPrefix ==
  Has("relay") =>
    /\ IsPrefix(Delivered(wlog), cout)
    /\ IsPrefix(tout, ReadFromClient)
    /\ IsPrefix(SentToClient, ReadFromTarget)
    /\ c2t \in {"read", "write"} => tout \o c2tbuf = ReadFromClient
    /\ pc \in {"copy_read", "copy_write"} => SentToClient \o t2cbuf = ReadFromTarget

\* Both copies have delivered two bytes; the one towards the target holds a third.
C12_Witness ==
  /\ Has("relay")
  /\ Len(tout) = 2
  /\ Len(c2tbuf) = 1
  /\ SentToClient = <<211, 212>>
  /\ pc = "copy_read"

\* ---------------------------------------------------------------- C13

\* C13: nothing a client sends and no failed read, write or dial ends the server
\* process: no connection's goroutine panics, every failure ends in a return of
\* handleConnection with an error.
C13_ProcessSurvives ==
  /\ pc # "panicked"
  /\ err # Panic

\* ---------------------------------------------------------------- C14

\* The error NewClientAuthMessage returns for a greeting of version 4.
GreetingVersionError == NewClientAuthMessage(GreetingFrame(4, <<MethodNoAuth>>), 0).err

\* C14: when the configured method is not among the offered ones, auth fails with
\* an error that is not the one a greeting of another version fails with.
C14_NoAcceptableDistinct ==
  Has("nomethod") => Returned /\ err # NoError /\ err # GreetingVersionError

\* ---------------------------------------------------------------- C15

\* The client's greeting has its two leading bytes and a version other than 5.
GreetingVersionMismatch ==
  Has("greeting_err") /\ Len(cin) >= 2 /\ cin[1] # SOCKS5Version

\* The client's sub-negotiation request has its two leading bytes and a version
\* other than 1.
SubnegVersionMismatch ==
  /\ Has("subneg_err")
  /\ Len(cin) >= GreetingEnd + 2
  /\ cin[GreetingEnd + 1] # PasswordMethodVersion

\* C15: a greeting of a version other than 5 ends the connection with the
\* protocol-version error, nothing written to the client and, of the greeting,
\* only the version and the method count read; a sub-negotiation request of a
\* version other than 1 ends it with the auth-version error, no status written
\* after the method selection, its credentials unread. No stage goes on with a
\* mismatched version.
C15_VersionMismatch ==
  /\ GreetingVersionMismatch =>
       /\ Returned
       /\ err = ErrVersionNotSupported
       /\ wlog = <<>>
       /\ cout = <<>>
       /\ rpos = 2
       /\ trace = <<"greeting_err">>
  /\ SubnegVersionMismatch =>
       /\ Returned
       /\ err = ErrMethodVersionNotSupported
       /\ Len(wlog) = 1
       /\ cout = SendServerAuthMessage(MethodPassword)
       /\ rpos = GreetingEnd + 2
       /\ trace[Len(trace)] = "subneg_err"
  /\ Has("greeting") => cin[1] = SOCKS5Version
  /\ Has("subneg") \/ Has("subneg_panic") => cin[GreetingEnd + 1] = PasswordMethodVersion

\* A version-4 greeting that offers a method, rejected with the method unread.
C15_Witness ==
  /\ GreetingVersionMismatch
  /\ Len(cin) > 2
  /\ cin[2] > 0
  /\ rpos = 2
  /\ err = ErrVersionNotSupported

\* ---------------------------------------------------------------- C16

\* The client sent the four header bytes of a request after the handshake.
WireHeaderComplete == Has("request") /\ Len(cin) >= RequestBase + 4

\* The first header field on the wire that is not valid, in the order version,
\* command, reserved, address type, as the error that names it.
WireHeaderError ==
  IF cin[RequestBase + 1] # 5 THEN ErrVersionNotSupported
  ELSE IF cin[RequestBase + 2] \notin {1, 2, 3} THEN ErrCommandNotSupported
  ELSE IF cin[RequestBase + 3] # 0 THEN ErrInvalidReservedField
  ELSE IF cin[RequestBase + 4] \notin {1, 3, 4} THEN ErrAddressTypeNotSupported
  ELSE NoError

\* C16: NewClientRequestMessage validates the four header fields before it reads
\* the address: a request with an invalid header fails with exactly its 4 header
\* bytes consumed, and with the error of the first invalid field in the order
\* version, command, reserved, address type; address bytes are consumed only
\* after a valid header.
C16_HeaderOrder ==
  WireHeaderComplete =>
    /\ WireHeaderError # NoError =>
         /\ Has("request_err")
         /\ Returned
         /\ err = WireHeaderError
         /\ rpos = RequestBase + 4
         /\ message = NoMessage
    /\ WireHeaderError = NoError /\ Len(cin) > RequestBase + 4 => rpos > RequestBase + 4

\* A request with an unknown command, a nonzero reserved byte and an unknown
\* address type, followed by address and port: the command is what is reported.
C16_Witness ==
  /\ WireHeaderComplete
  /\ cin[RequestBase + 1] = 5
  /\ cin[RequestBase + 2] = 9
  /\ cin[RequestBase + 3] = 1
  /\ cin[RequestBase + 4] = 2
  /\ Len(cin) = RequestBase + 10
  /\ rpos = RequestBase + 4
  /\ err = ErrCommandNotSupported

\* ---------------------------------------------------------------- C17

\* C17: once handleConnection has returned after a successful dial, the target
\* connection is closed, whichever way it returned: after the relay, or after a
\* failed write of the success reply.
C17_TargetClosedOnEveryExit ==
  Returned /\ tconn # "none" => tconn = "closed"

\* ---------------------------------------------------------------- C18

\* The client sent a whole, valid request whose address type is IPv6.
WireIPv6Request ==
  Has("request") /\ WireRequestComplete /\ cin[RequestBase + 4] = TypeIPv6

\* C18: a well-formed IPv6 request, whatever its command, is consumed whole (4
\* header, 16 address and 2 port bytes), is answered with one failure frame of
\* status 8 and ends the handler with the address-type error; no dial is made,
\* no relay started, and a BIND or UDP command does not change the outcome.
C18_IPv6Rejected ==
  WireIPv6Request =>
    /\ Returned
    /\ err = ErrAddressTypeNotSupported
    /\ rpos = RequestBase + 4 + IPv6Length + PortLength
    /\ FailureFrames = {Len(wlog)}
    /\ wlog[Len(wlog)].b = <<5, 8, 0, 1, 0, 0, 0, 0, 0, 0>>
    /\ tconn = "none"
    /\ ~ Has("dial")
    /\ ~ Has("udp")
    /\ ~ Has("relay")

\* An IPv6 UDP-associate request answered with status 8.
C18_Witness ==
  /\ WireIPv6Request
  /\ cin[RequestBase + 2] = CmdUDP
  /\ message.Cmd = CmdUDP
  /\ wlog[Len(wlog)] = [b |-> <<5, 8, 0, 1, 0, 0, 0, 0, 0, 0>>, ok |-> TRUE]

\* ---------------------------------------------------------------- C19

\* C19: once forward has returned and Run's goroutine has closed the client
\* connection, the goroutine io.Copy(targetConn, conn) eventually ends, holding
\* nothing; and from the close of the target connection on, no byte reaches the
\* target.
C19_CopyTaskEnds ==
  /\ (Has("relay_ret") /\ pc = "closed") ~> (c2t = "done" /\ c2tbuf = <<>>)
  /\ [][tconn = "closed" => tout' = tout]_vars
  /\ [](c2t = "done" => c2tbuf = <<>>)

\* The client connection was closed under a goroutine that still held bytes for
\* the target, and the goroutine has ended without delivering them.
C19_Witness ==
  /\ Has("relay_ret")
  /\ pc = "closed"
  /\ c2t = "done"
  /\ c2terr = ErrWrite
  /\ tpeer = "open"
  /\ Len(tout) < Len(ReadFromClient)

\* ---------------------------------------------------------------- C20

\* C20: Config.PasswordChecker is called at most once in a connection, only under
\* the password method, only after the method selection was written and a whole
\* sub-negotiation request of version 1 was read, with the username and the
\* password of that request, and its result is what the status reply carries;
\* it is not called after a greeting that failed, after no method was acceptable
\* or after a sub-negotiation request that failed by its version or otherwise.
C20_CheckerCalls ==
  /\ Len(calls) <= 1
  /\ calls # <<>> =>
       /\ authMethod = MethodPassword
       /\ Has("method")
       /\ wlog[1] = [b |-> SendServerAuthMessage(MethodPassword), ok |-> TRUE]
       /\ Has("subneg")
       /\ WireSubnegComplete
       /\ rpos >= SubnegEnd
       /\ calls[1][1] = SubSeq(cin, GreetingEnd + 3, GreetingEnd + 2 + ULen)
       /\ calls[1][2] = SubSeq(cin, GreetingEnd + 4 + ULen, SubnegEnd)
       /\ calls[1][3] = PasswordChecker(calls[1][1], calls[1][2])
       /\ Len(wlog) >= 2
       /\ wlog[2].b = WriteServerPasswordMessage(IF calls[1][3] THEN PasswordAuthSuccess
                                                  ELSE PasswordAuthFailure)
  /\ Has("greeting_err") \/ Has("nomethod") \/ Has("method_werr") => calls = <<>>
  /\ Has("subneg_err") \/ Has("subneg_panic") => calls = <<>>
  /\ authMethod # MethodPassword => calls = <<>>

\* The checker was called once, with the README's credentials, whose password
\* was read into the buffer the username had been read into.
C20_Witness ==
  /\ calls = << <<Admin, AdminPassword, TRUE>> >>
  /\ Has("status_ok")
  /\ Returned

====
